---- MODULE Spec2Model ----
(***************************************************************************)
(* Model of directory_tree.py: the DirectoryTree renderer and main().      *)
(*                                                                         *)
(* Paths are sequences of one-character strings, so that the string        *)
(* operations the code applies to them (replace, count, split, join,       *)
(* basename) are computed character by character.  Directory and file      *)
(* names are one character long.  Output lines are strings.  The two       *)
(* branch glyphs of the source are not ASCII; the model writes "+-- " for  *)
(* the last-branch glyph and "|-- " for the mid-branch glyph.              *)
(*                                                                         *)
(* The filesystem does not change during a run.  The model observes it     *)
(* listing by listing: the first time a directory is listed its content    *)
(* is drawn from the bounded sets below and recorded in fs, and every      *)
(* later listing of the same directory returns the recorded content.       *)
(* The tree holds no symbolic links, so follow_symlinks changes nothing;   *)
(* safe_mode, visited and safe_root are set by __init__ and never read.    *)
(***************************************************************************)
EXTENDS Integers, Sequences, FiniteSets, TLC

\* ------------------------------------------------------------------ bounds

\* Most subdirectories the whole observed tree may hold (the root excluded).
MaxDirs == 3
\* Most files the whole observed tree may hold.
MaxFiles == 2

\* ---------------------------------------------------------------- alphabet

Sep == "/"
DirNames == {"a", "b"}
FileNames == {"a", "f"}
\* Values of root_path after os.path.abspath: the filesystem root, a root
\* whose name a descendant may repeat, and a root whose name none repeats.
RootPaths == {<<"/">>, <<"/", "a">>, <<"/", "c">>}
\* "" stands for output_file = None (both are falsy in the code's tests).
OutputFiles == {"", "tree.txt"}
IgnoreLists == {{}, {"a"}, {"b"}}

Unit == "|   "
LastGlyph == "+-- "
MidGlyph == "|-- "

\* Character order of the names, as Python's string comparison orders them.
Ord(c) == CASE c = "/" -> 47 [] c = "a" -> 97 [] c = "b" -> 98
            [] c = "c" -> 99 [] c = "f" -> 102 [] OTHER -> 0

VARIABLES
    root_path,    \* self.root_path
    output_file,  \* self.output_file
    ignore_list,  \* self.ignore_list (only membership is ever asked)
    argv,         \* the command line parsed by main(), or "none"
    fs,           \* the filesystem as observed: path -> listing
    pc,           \* where generate_tree stands
    stack,        \* os.walk's pending directories, next one first
    output,       \* what open_output_file returned: "none", "file", "stdout"
    opens,        \* number of times a destination was opened
    closes,       \* number of close() calls on output
    out,          \* the lines written to output, in order
    tags,         \* for each line of out: its kind, directory and name
    steps,        \* one record per process_directory call, in order
    first         \* the finished render of an earlier DirectoryTree, if any

vars == <<root_path, output_file, ignore_list, argv, fs, pc, stack, output,
          opens, closes, out, tags, steps, first>>

\* ------------------------------------------------------------ path strings

RECURSIVE StrOf(_)
StrOf(s) == IF s = <<>> THEN "" ELSE Head(s) \o StrOf(Tail(s))

\* str.replace(old, ''): non-overlapping occurrences, scanned left to right.
RECURSIVE Remove(_, _)
Remove(s, old) ==
    IF Len(s) < Len(old) THEN s
    ELSE IF SubSeq(s, 1, Len(old)) = old
         THEN Remove(SubSeq(s, Len(old) + 1, Len(s)), old)
         ELSE <<Head(s)>> \o Remove(Tail(s), old)

\* str.count(c) for a single character c.
Count(s, c) == Cardinality({i \in 1..Len(s) : s[i] = c})

\* str.rfind(sep) + 1.
RFind1(p) ==
    LET at == {i \in 1..Len(p) : p[i] = Sep}
    IN IF at = {} THEN 0 ELSE CHOOSE i \in at : \A j \in at : j <= i

RECURSIVE RStrip(_)
RStrip(p) ==
    IF p # <<>> /\ p[Len(p)] = Sep THEN RStrip(SubSeq(p, 1, Len(p) - 1)) ELSE p

\* os.path.split (posixpath): <<head, tail>>.
Split(p) ==
    LET i == RFind1(p)
        head == SubSeq(p, 1, i)
        tail == SubSeq(p, i + 1, Len(p))
    IN <<IF head # <<>> /\ (\E k \in 1..Len(head) : head[k] # Sep)
         THEN RStrip(head) ELSE head,
         tail>>

\* os.path.basename, as a string.
Basename(p) == StrOf(SubSeq(p, RFind1(p) + 1, Len(p)))

\* os.path.join(top, name) for a one-component relative name.
Join(top, name) ==
    IF top # <<>> /\ top[Len(top)] = Sep THEN Append(top, name)
    ELSE top \o <<Sep, name>>

\* str * n (the empty string for n <= 0).
RECURSIVE Rep(_, _)
Rep(s, n) == IF n <= 0 THEN "" ELSE s \o Rep(s, n - 1)

\* list.sort() on a list of names.
RECURSIVE Insert(_, _)
Insert(x, s) ==
    IF s = <<>> THEN <<x>>
    ELSE IF Ord(x) < Ord(Head(s)) THEN <<x>> \o s
         ELSE <<Head(s)>> \o Insert(x, Tail(s))

\* The listing left in the order the filesystem reported it.
NoSort(s) == s

RECURSIVE Sort(_)
Sort(s) == IF s = <<>> THEN <<>> ELSE Insert(Head(s), Sort(Tail(s)))

\* ------------------------------------------------------------- filesystem

\* Sequences over S without repetition.
NoDupSeqs(S) ==
    {s \in UNION {[1..k -> S] : k \in 0..Cardinality(S)} :
        \A i, j \in 1..Len(s) : i # j => s[i] # s[j]}

Range(s) == {s[i] : i \in 1..Len(s)}

RECURSIVE SumOver(_, _, _)
SumOver(f, D, field) ==
    IF D = {} THEN 0
    ELSE LET p == CHOOSE q \in D : TRUE
         IN (IF field = "dirs" THEN Len(f[p].dirs) ELSE Len(f[p].files))
            + SumOver(f, D \ {p}, field)

DirsSeen == SumOver(fs, DOMAIN fs, "dirs")
FilesSeen == SumOver(fs, DOMAIN fs, "files")

\* What one scandir of a directory not listed before may report: either an
\* error (ok = FALSE), or its subdirectories and its files, each in the
\* order the filesystem reports them (any order).
Listings ==
    {[ok |-> FALSE, dirs |-> <<>>, files |-> <<>>]}
    \cup {l \in [ok : {TRUE}, dirs : NoDupSeqs(DirNames),
                 files : NoDupSeqs(FileNames)] :
            /\ Len(l.dirs) <= MaxDirs - DirsSeen
            /\ Len(l.files) <= MaxFiles - FilesSeen
            /\ Range(l.dirs) \cap Range(l.files) = {}}

\* The listing of path: the recorded one, or a first one.
Scan(path) == IF path \in DOMAIN fs THEN {fs[path]} ELSE Listings

\* ------------------------------------------------------- DirectoryTree

\* One line per file, ignored or not.
RECURSIVE process_files_all(_, _, _)
process_files_all(files, level, root) ==
    IF files = <<>> THEN <<>>
    ELSE <<[text |-> Rep(Unit, level) \o Unit \o Head(files),
            kind |-> "file", dir |-> root, name |-> Head(files)]>>
         \o process_files_all(Tail(files), level, root)

\* process_files: one line per file not in the ignore list.  The trailing
\* test "not files and not dir" reads the builtin dir, which is always
\* truthy, so its branch never writes.
RECURSIVE process_files(_, _, _)
process_files(files, level, root) ==
    IF files = <<>> THEN <<>>
    ELSE (IF Head(files) \notin ignore_list
          THEN <<[text |-> Rep(Unit, level) \o Unit \o Head(files),
                  kind |-> "file", dir |-> root, name |-> Head(files)]>>
          ELSE <<>>)
         \o process_files(Tail(files), level, root)

\* The depth process_directory computes.
Level(root) == Count(Remove(root, root_path), Sep)

\* next(os.walk(parent_path))[1]: the parent's subdirectories as listed.
ParentDirs(parent_path) == fs[parent_path].dirs

\* The indentation of the directory line, branch glyph included.
Indent(root) ==
    LET level == Level(root)
        indent == IF level > 0 THEN Rep(Unit, level - 1) ELSE ""
        parent_path == Split(root)[1]
        parent_dirs == ParentDirs(parent_path)
    IN IF level > 0
       THEN IF root = Join(parent_path, parent_dirs[Len(parent_dirs)])
            THEN indent \o LastGlyph
            ELSE indent \o MidGlyph
       ELSE indent

\* The directory line.
DirLine(root) ==
    [text |-> Indent(root) \o Basename(root) \o "/",
     kind |-> "dir", dir |-> root, name |-> Basename(root)]

\* The placeholder line of an ignored directory.
Placeholder(root) ==
    [text |-> Indent(root) \o Unit \o "...",
     kind |-> "placeholder", dir |-> root, name |-> Basename(root)]

\* The bar written whether or not there are subdirectories.
BarAlways(root, dirs) ==
    <<[text |-> Rep(Unit, Level(root)) \o "|",
       kind |-> "bar", dir |-> root, name |-> Basename(root)]>>

\* The vertical bar written after the files when dirs is not empty.
Bar(root, dirs) ==
    IF dirs # <<>>
    THEN <<[text |-> Rep(Unit, Level(root)) \o "|",
            kind |-> "bar", dir |-> root, name |-> Basename(root)]>>
    ELSE <<>>

\* dirs never cleared.
KeptDirsAll(root, dirs) == dirs

\* dirs as process_directory leaves it: cleared for an ignored directory.
KeptDirs(root, dirs) == IF Basename(root) \in ignore_list THEN <<>> ELSE dirs

\* process_directory: the lines it writes, and dirs as it leaves it.
process_directory(root, dirs, files) ==
    [lines |-> IF Basename(root) \in ignore_list
               THEN <<DirLine(root), Placeholder(root)>>
               ELSE <<DirLine(root)>> \o process_files(files, Level(root), root)
                    \o Bar(root, dirs),
     dirs |-> KeptDirs(root, dirs)]

Texts(lines) == [i \in 1..Len(lines) |-> lines[i].text]
Tags(lines) == [i \in 1..Len(lines) |->
                  [kind |-> lines[i].kind, dir |-> lines[i].dir, name |-> lines[i].name]]
Children(root, dirs) == [i \in 1..Len(dirs) |-> Join(root, dirs[i])]

\* A finally clause that closes whatever output is.
FinallyAlways == closes' = closes + 1

\* The finally clause of generate_tree.
Finally == closes' = IF output_file # "" THEN closes + 1 ELSE closes

\* open_output_file succeeds; walk_directory starts os.walk at root_path.
OpenOutput ==
    /\ pc = "constructed"
    /\ output' = IF output_file # "" THEN "file" ELSE "stdout"
    /\ opens' = opens + 1
    /\ stack' = <<root_path>>
    /\ pc' = "walking"
    /\ UNCHANGED <<root_path, output_file, ignore_list, argv, fs, closes, out,
                   tags, steps, first>>

\* open() raises: generate_tree ends before its try block.
OpenFails ==
    /\ pc = "constructed"
    /\ output_file # ""
    /\ pc' = "open_failed"
    /\ UNCHANGED <<root_path, output_file, ignore_list, argv, fs, stack, output,
                   opens, closes, out, tags, steps, first>>

\* One iteration of walk_directory's loop: os.walk lists the next pending
\* directory, dirs.sort(), process_directory writes its lines, and os.walk
\* queues the subdirectories left in dirs.
WalkStep ==
    /\ pc = "walking"
    /\ stack # <<>>
    /\ LET root == Head(stack)
       IN \E l \in Scan(root) :
            /\ l.ok
            /\ LET dirs == Sort(l.dirs)
                   r == process_directory(root, dirs, l.files)
               IN /\ fs' = (root :> l) @@ fs
                  /\ out' = out \o Texts(r.lines)
                  /\ tags' = tags \o Tags(r.lines)
                  /\ steps' = Append(steps,
                                [root |-> root, level |-> Level(root),
                                 dirs |-> dirs, files |-> l.files,
                                 at |-> Len(out) + 1, n |-> Len(r.lines)])
                  /\ stack' = Children(root, r.dirs) \o Tail(stack)
    /\ UNCHANGED <<root_path, output_file, ignore_list, argv, pc, output, opens,
                   closes, first>>

\* The same iteration when a write raises after k lines: the exception
\* leaves walk_directory and the finally clause runs.
WalkRaise ==
    /\ pc = "walking"
    /\ stack # <<>>
    /\ LET root == Head(stack)
       IN \E l \in Scan(root) :
            /\ l.ok
            /\ LET r == process_directory(root, Sort(l.dirs), l.files)
               IN \E k \in 0..(Len(r.lines) - 1) :
                    /\ fs' = (root :> l) @@ fs
                    /\ out' = out \o SubSeq(Texts(r.lines), 1, k)
                    /\ tags' = tags \o SubSeq(Tags(r.lines), 1, k)
    /\ Finally
    /\ pc' = "raised"
    /\ UNCHANGED <<root_path, output_file, ignore_list, argv, stack, output,
                   opens, steps, first>>

\* A walk that lets the listing error out of walk_directory.
WalkSkipRaises ==
    /\ pc = "walking"
    /\ stack # <<>>
    /\ \E l \in Scan(Head(stack)) :
         /\ ~l.ok
         /\ fs' = (Head(stack) :> l) @@ fs
    /\ closes' = IF output_file # "" THEN closes + 1 ELSE closes
    /\ pc' = "raised"
    /\ UNCHANGED <<root_path, output_file, ignore_list, argv, stack, output,
                   opens, out, tags, steps, first>>

\* os.walk cannot list the next pending directory: with no onerror handler
\* it drops the error and goes on to the next pending directory.
WalkSkip ==
    /\ pc = "walking"
    /\ stack # <<>>
    /\ LET root == Head(stack)
       IN \E l \in Scan(root) :
            /\ ~l.ok
            /\ fs' = (root :> l) @@ fs
    /\ stack' = Tail(stack)
    /\ UNCHANGED <<root_path, output_file, ignore_list, argv, pc, output, opens,
                   closes, out, tags, steps, first>>

\* os.walk is exhausted: the finally clause runs and generate_tree returns.
WalkEnd ==
    /\ pc = "walking"
    /\ stack = <<>>
    /\ Finally
    /\ pc' = "done"
    /\ UNCHANGED <<root_path, output_file, ignore_list, argv, fs, stack, output,
                   opens, out, tags, steps, first>>

\* ------------------------------------------------------------------ main

\* The working directory of the process, and the directory of the script.
Cwd == <<"/", "c">>
ScriptDir == <<"/", "c">>
\* The root_path arguments and -i lists a command line may carry.
RootArgs == {<<"/">>, <<"/", "a", "/">>, <<".">>}
IgnoreArgs == {{}, {"a"}, {"f"}, {"a", "f"}}

\* str.split('/'): the components of a path, as sequences of characters.
RECURSIVE Components(_, _)
Components(p, cur) ==
    IF p = <<>> THEN <<cur>>
    ELSE IF Head(p) = Sep THEN <<cur>> \o Components(Tail(p), <<>>)
         ELSE Components(Tail(p), Append(cur, Head(p)))

RECURSIVE JoinComps(_)
JoinComps(cs) ==
    IF cs = <<>> THEN <<>>
    ELSE IF Len(cs) = 1 THEN Head(cs)
         ELSE Head(cs) \o <<Sep>> \o JoinComps(Tail(cs))

\* os.path.normpath for absolute paths without ".." components: empty and
\* "." components are dropped.
Normpath(p) ==
    <<Sep>> \o JoinComps(SelectSeq(Components(p, <<>>),
                                   LAMBDA c : c # <<>> /\ c # <<".">>))

\* os.path.abspath.
Abspath(p) ==
    Normpath(IF p # <<>> /\ Head(p) = Sep THEN p ELSE Cwd \o <<Sep>> \o p)

NoArgv == [given |-> FALSE, root_path |-> <<>>, output_file |-> "", ignore_list |-> {}]

\* parse_args: the command lines main() may see.
Argvs ==
    [given : {TRUE}, root_path : RootArgs, output_file : OutputFiles,
     ignore_list : IgnoreArgs]

\* main() with arguments: ignore_list is parsed and not handed on, so
\* __init__ takes its default.
MainArgs ==
    /\ pc = "start"
    /\ argv.given
    /\ root_path' = Abspath(argv.root_path)
    /\ output_file' = argv.output_file
    /\ ignore_list' = {}
    /\ pc' = "constructed"
    /\ UNCHANGED <<argv, fs, stack, output, opens, closes, out, tags, steps, first>>

\* main() without arguments: the hardcoded configuration.
MainNoArgs ==
    /\ pc = "start"
    /\ ~argv.given
    /\ root_path' = Abspath(ScriptDir)
    /\ output_file' = "directory_tree_output.txt"
    /\ ignore_list' = {"venv", ".git", ".gitignore", ".DS_Store", ".vscode"}
    /\ pc' = "constructed"
    /\ UNCHANGED <<argv, fs, stack, output, opens, closes, out, tags, steps, first>>

NoFirst == [done |-> FALSE, ignore_list |-> {}, added |-> "", out |-> <<>>, tags |-> <<>>]

\* A second DirectoryTree is constructed on the same filesystem once the
\* first has returned, with one more file name in its ignore list.
Rerender ==
    /\ pc = "done"
    /\ ~first.done
    /\ \E n \in FileNames \ ignore_list :
         /\ first' = [done |-> TRUE, ignore_list |-> ignore_list, added |-> n,
                      out |-> out, tags |-> tags]
         /\ ignore_list' = ignore_list \cup {n}
    /\ pc' = "constructed"
    /\ stack' = <<>>
    /\ output' = "none"
    /\ opens' = 0
    /\ closes' = 0
    /\ out' = <<>>
    /\ tags' = <<>>
    /\ steps' = <<>>
    /\ UNCHANGED <<root_path, output_file, argv, fs>>

\* ---------------------------------------------------------- specifications


\* The state after DirectoryTree.__init__, called as a library.
Init ==
    /\ root_path \in RootPaths
    /\ output_file \in OutputFiles
    /\ ignore_list \in IgnoreLists
    /\ argv = NoArgv
    /\ fs = <<>>
    /\ pc = "constructed"
    /\ stack = <<>>
    /\ output = "none"
    /\ opens = 0
    /\ closes = 0
    /\ out = <<>>
    /\ tags = <<>>
    /\ steps = <<>>
    /\ first = NoFirst

Next == OpenOutput \/ OpenFails \/ WalkStep \/ WalkRaise \/ WalkSkip \/ WalkEnd

Spec == Init /\ [][Next]_vars

\* The process as started from the command line.
InitMain ==
    /\ argv \in Argvs \cup {NoArgv}
    /\ root_path = <<>>
    /\ output_file = ""
    /\ ignore_list = {}
    /\ fs = <<>>
    /\ pc = "start"
    /\ stack = <<>>
    /\ output = "none"
    /\ opens = 0
    /\ closes = 0
    /\ out = <<>>
    /\ tags = <<>>
    /\ steps = <<>>
    /\ first = NoFirst

NextMain ==
    MainArgs \/ MainNoArgs \/ OpenOutput \/ OpenFails \/ WalkStep \/ WalkRaise
    \/ WalkSkip \/ WalkEnd

SpecMain == InitMain /\ [][NextMain]_vars

\* One render written to standard output, with no write failing.
InitRender ==
    /\ root_path \in RootPaths
    /\ output_file = ""
    /\ ignore_list \in IgnoreLists
    /\ argv = NoArgv
    /\ fs = <<>>
    /\ pc = "constructed"
    /\ stack = <<>>
    /\ output = "none"
    /\ opens = 0
    /\ closes = 0
    /\ out = <<>>
    /\ tags = <<>>
    /\ steps = <<>>
    /\ first = NoFirst

NextRender == OpenOutput \/ WalkStep \/ WalkSkip \/ WalkEnd

SpecRender == InitRender /\ [][NextRender]_vars

\* Two renders of one filesystem in a row, written to standard output, with
\* no write failing.
InitTwice ==
    /\ root_path \in RootPaths
    /\ output_file = ""
    /\ ignore_list \in {{}, {"a"}}
    /\ argv = NoArgv
    /\ fs = <<>>
    /\ pc = "constructed"
    /\ stack = <<>>
    /\ output = "none"
    /\ opens = 0
    /\ closes = 0
    /\ out = <<>>
    /\ tags = <<>>
    /\ steps = <<>>
    /\ first = NoFirst

NextTwice == OpenOutput \/ WalkStep \/ WalkSkip \/ WalkEnd \/ Rerender

SpecTwice == InitTwice /\ [][NextTwice]_vars

\* ------------------------------------------------------------------ claims

Parent(p) == Split(p)[1]

\* The number of directory levels between root_path and p.
RECURSIVE Depth(_)
Depth(p) == IF p = root_path \/ Len(p) <= 1 THEN 0 ELSE 1 + Depth(Parent(p))

\* q lies below p: p, ended by a separator, is a proper prefix of q.
IsUnder(q, p) ==
    /\ Len(q) > Len(p)
    /\ SubSeq(q, 1, Len(p)) = p
    /\ (p[Len(p)] = Sep \/ q[Len(p) + 1] = Sep)

IsIgnored(p) == Basename(p) \in ignore_list

\* The lines of out that belong to directory p and have the given kind.
LinesOf(p, kind) ==
    {j \in 1..Len(tags) : tags[j].kind = kind /\ tags[j].dir = p}

\* The name of p is the greatest among the subdirectories of its parent.
IsLexLast(p) ==
    \A n \in Range(fs[Parent(p)].dirs) : Ord(n) <= Ord(p[Len(p)])

\* C10: every visited directory's computed depth is the number of directory
\* levels between the root and it: 0 for the root, at least 1 otherwise.
C10_DepthIsLevels ==
    \A i \in 1..Len(steps) :
        /\ steps[i].level = Depth(steps[i].root)
        /\ (steps[i].root # root_path => steps[i].level >= 1)

\* C1: the line of every visited directory whose computed depth is above 0
\* carries the last-branch glyph if its name is the lexicographically last
\* among its parent's subdirectories and the mid-branch glyph otherwise; the
\* root's line carries no glyph.
C1_GlyphIsLexLast ==
    \A i \in 1..Len(steps) :
        LET s == steps[i]
        IN /\ s.root = root_path => out[s.at] = Basename(s.root) \o "/"
           /\ s.level > 0 =>
                out[s.at] = Rep(Unit, s.level - 1)
                            \o (IF IsLexLast(s.root) THEN LastGlyph ELSE MidGlyph)
                            \o Basename(s.root) \o "/"

\* The continuation-bar statement for the step s.
BarRule(s) ==
    LET bars == LinesOf(s.root, "bar")
    IN /\ s.dirs # <<>> =>
            /\ bars = {s.at + s.n - 1}
            /\ out[s.at + s.n - 1] = Rep(Unit, s.level) \o "|"
            /\ \A j \in LinesOf(s.root, "file") \cup LinesOf(s.root, "dir") :
                    j < s.at + s.n - 1
       /\ s.dirs = <<>> => bars = {}
       /\ (s.dirs = <<>> /\ s.files = <<>>) =>
            {j \in 1..Len(tags) : tags[j].dir = s.root} = {s.at}

Indents ==
    {Rep(Unit, k) \o g : k \in 0..(MaxDirs + 1), g \in {"", LastGlyph, MidGlyph}}

\* C3: an ignored directory's line is followed at once by one placeholder
\* line with the same indentation; it has no file line; nothing below it is
\* listed, queued, visited or written; its parent's bar is written.
C3_IgnoredDirectory ==
    \A i \in 1..Len(steps) :
        LET s == steps[i]
        IN IsIgnored(s.root) =>
            /\ {j \in 1..Len(tags) : tags[j].dir = s.root} = {s.at, s.at + 1}
            /\ tags[s.at].kind = "dir"
            /\ tags[s.at + 1].kind = "placeholder"
            /\ \E ind \in Indents :
                 /\ out[s.at] = ind \o Basename(s.root) \o "/"
                 /\ out[s.at + 1] = ind \o Unit \o "..."
            /\ \A j \in 1..Len(tags) : ~IsUnder(tags[j].dir, s.root)
            /\ \A k \in 1..Len(steps) : ~IsUnder(steps[k].root, s.root)
            /\ \A k \in 1..Len(stack) : ~IsUnder(stack[k], s.root)
            /\ \A q \in DOMAIN fs : ~IsUnder(q, s.root)
            /\ s.root # root_path => LinesOf(Parent(s.root), "bar") # {}

\* An ignored directory below the root that holds a file and a subdirectory
\* has been rendered and the render has returned.
C3_Witness ==
    /\ pc = "done"
    /\ \E i \in 1..Len(steps) :
         /\ IsIgnored(steps[i].root)
         /\ steps[i].root # root_path
         /\ steps[i].dirs # <<>>
         /\ steps[i].files # <<>>

IsUnderOrEq(q, p) == q = p \/ IsUnder(q, p)

\* The directories of the lines of kind "dir", in the order written.
DirSeq ==
    LET ds == SelectSeq(tags, LAMBDA t : t.kind = "dir")
    IN [i \in 1..Len(ds) |-> ds[i].dir]

\* The names of a set in increasing order.
RECURSIVE Ascending(_)
Ascending(S) ==
    IF S = {} THEN <<>>
    ELSE LET n == CHOOSE x \in S : \A y \in S : Ord(x) <= Ord(y)
         IN <<n>> \o Ascending(S \ {n})

\* The pre-order of the tree below p, children by increasing name, with
\* unlistable directories left out and ignored directories not entered: a
\* function of the tree and the ignore list, not of any listing order.
RECURSIVE Preorder(_)
RECURSIVE PreorderEach(_, _)
Preorder(p) ==
    IF p \notin DOMAIN fs \/ ~fs[p].ok THEN <<>>
    ELSE <<p>> \o (IF IsIgnored(p) THEN <<>>
                   ELSE PreorderEach(p, Ascending(Range(fs[p].dirs))))
PreorderEach(p, names) ==
    IF names = <<>> THEN <<>>
    ELSE Preorder(Join(p, Head(names))) \o PreorderEach(p, Tail(names))

\* C4: the first line is the root's; a directory's line comes before every
\* line of a directory below it, and after its parent's line; the lines of
\* one subtree are contiguous; siblings appear in lexicographic order; no
\* directory is emitted twice; and the order of the directory lines of a
\* finished render is the sorted pre-order of the tree, whatever order the
\* listings reported.
C4_PreOrderSorted ==
    /\ pc = "done" => DirSeq = Preorder(root_path)
    /\ tags # <<>> => (tags[1].kind = "dir" /\ tags[1].dir = root_path)
    /\ \A j \in 1..Len(tags) :
         /\ \E i \in 1..j : tags[i].kind = "dir" /\ tags[i].dir = tags[j].dir
         /\ tags[j].dir # root_path =>
              \E i \in 1..(j - 1) :
                  tags[i].kind = "dir" /\ tags[i].dir = Parent(tags[j].dir)
    /\ \A i \in {x \in 1..Len(tags) : tags[x].kind = "dir"} :
         /\ \A j \in 1..Len(tags) : IsUnder(tags[j].dir, tags[i].dir) => i < j
         /\ \A j \in {x \in (i + 1)..Len(tags) : tags[x].kind = "dir"} :
              /\ tags[i].dir # tags[j].dir
              /\ (/\ tags[i].dir # root_path
                  /\ Parent(tags[i].dir) = Parent(tags[j].dir)) =>
                    Ord(tags[i].dir[Len(tags[i].dir)])
                        < Ord(tags[j].dir[Len(tags[j].dir)])
         /\ \A k \in (i + 2)..Len(tags) :
              IsUnderOrEq(tags[k].dir, tags[i].dir) =>
                \A j \in (i + 1)..(k - 1) : IsUnderOrEq(tags[j].dir, tags[i].dir)

\* The filesystem reported b before a; a, a directory below a, and then b
\* have been emitted in that order.
C4_Witness ==
    /\ pc = "done"
    /\ root_path \in DOMAIN fs
    /\ fs[root_path].dirs = <<"b", "a">>
    /\ \E i, j, k \in 1..Len(tags) :
         /\ i < j /\ j < k
         /\ tags[i].kind = "dir" /\ tags[i].dir = Join(root_path, "a")
         /\ tags[j].kind = "dir" /\ IsUnder(tags[j].dir, tags[i].dir)
         /\ tags[k].kind = "dir" /\ tags[k].dir = Join(root_path, "b")

C8_State ==
    /\ opens <= 1
    /\ pc \in {"walking", "done", "raised"} => (opens = 1 /\ output # "none")
    /\ (out # <<>> \/ steps # <<>> \/ fs # <<>>) => opens = 1
    /\ output = "file" <=> (opens = 1 /\ output_file # "")
    /\ pc = "walking" => closes = 0
    /\ (pc \in {"done", "raised"} /\ output = "file") => closes = 1
    /\ output = "stdout" => closes = 0
    /\ pc = "open_failed" =>
         (opens = 0 /\ closes = 0 /\ out = <<>> /\ fs = <<>> /\ steps = <<>>
          /\ stack = <<>>)

C8_Step ==
    /\ out' # out => (opens = 1 /\ closes = 0 /\ output # "none" /\ output' = output)
    /\ closes' # closes =>
         (closes' = closes + 1 /\ pc = "walking" /\ pc' \in {"done", "raised"})
    /\ pc \in {"done", "raised", "open_failed"} => pc' = pc

\* C8: the destination is opened once, before anything is listed or
\* written; lines are written only while it is open; a file is closed once,
\* when the traversal ends, normally or by an exception, and the outcome
\* stays; standard output is never closed; a failed open leaves nothing
\* listed and nothing written.
C8_Lifecycle == []C8_State /\ [][C8_Step]_vars

\* A write has failed after some lines went to a file, and the file is
\* closed.
C8_Witness ==
    pc = "raised" /\ output = "file" /\ closes = 1 /\ out # <<>> /\ steps # <<>>

RootUntraversable == root_path \in DOMAIN fs /\ ~fs[root_path].ok

\* C9 as stated: with a root that cannot be listed, generate_tree does not
\* return normally.
C9_ErrorPropagates == RootUntraversable => pc # "done"

\* C9 as amended: with a root that cannot be listed, the listing error is
\* dropped: nothing is written, nothing else is listed or queued (no
\* retry), no exception is raised, and generate_tree returns normally once
\* a file destination is closed.
C9_EmptyRender ==
    RootUntraversable =>
        /\ pc \in {"walking", "done"}
        /\ stack = <<>>
        /\ out = <<>>
        /\ steps = <<>>
        /\ DOMAIN fs = {root_path}
        /\ pc = "done" => closes = (IF output = "file" THEN 1 ELSE 0)

\* generate_tree has returned normally from a root that cannot be listed,
\* writing to a file.
C9_Witness == RootUntraversable /\ pc = "done" /\ output = "file"

\* The scenario: a root with subdirectories a and b and no file, a holding
\* the single file f, b empty, rendered to the end.
Scenario ==
    /\ pc = "done"
    /\ root_path = <<"/", "c">>
    /\ DOMAIN fs = {root_path, Join(root_path, "a"), Join(root_path, "b")}
    /\ fs[root_path].ok /\ fs[root_path].files = <<>>
    /\ Range(fs[root_path].dirs) = {"a", "b"}
    /\ fs[Join(root_path, "a")] = [ok |-> TRUE, dirs |-> <<>>, files |-> <<"f">>]
    /\ fs[Join(root_path, "b")] = [ok |-> TRUE, dirs |-> <<>>, files |-> <<>>]

\* C5: the scenario's lines are the root's line, a bar, a's line, f's line
\* and b's line, the directory lines bare and f's line one unit deep; with
\* b ignored, b's line is followed by the placeholder.
C5_ScenarioLines ==
    /\ (Scenario /\ ignore_list = {}) =>
            out = <<"c/", "|", "a/", "|   f", "b/">>
    /\ (Scenario /\ ignore_list = {"b"}) =>
            out = <<"c/", "|", "a/", "|   f", "b/", "|   ...">>

\* C7: a render started by main() with arguments uses the names given to
\* -i as its ignore list: a directory so named gets the placeholder line.
C7_IgnoreListFromArgv ==
    (argv.given /\ pc # "start") =>
        /\ ignore_list = argv.ignore_list
        /\ \A i \in 1..Len(steps) :
             Basename(steps[i].root) \in argv.ignore_list =>
                LinesOf(steps[i].root, "placeholder") # {}

\* The files of a list that are not in the ignore list, in order.
Kept(files) == SelectSeq(files, LAMBDA f : f \notin ignore_list)

\* The file-line statement for the step s: right after the directory line
\* comes one line per kept file, in order, Unit repeated level + 1 times
\* and the name; the directory has no other line but its bar, which follows.
FileRule(s) ==
    LET kept == Kept(s.files)
    IN /\ tags[s.at].kind = "dir" /\ tags[s.at].dir = s.root
       /\ LinesOf(s.root, "file") = {s.at + k : k \in 1..Len(kept)}
       /\ \A k \in 1..Len(kept) :
            /\ out[s.at + k] = Rep(Unit, s.level + 1) \o kept[k]
            /\ tags[s.at + k].name = kept[k]
       /\ LinesOf(s.root, "placeholder") = {}
       /\ LinesOf(s.root, "bar") \subseteq {s.at + Len(kept) + 1}
       /\ LinesOf(s.root, "dir") = {s.at}

FileLines == \A i \in 1..Len(steps) : ~IsIgnored(steps[i].root) => FileRule(steps[i])

\* The lines o, tagged t, less the file lines of the name n.
RECURSIVE Without(_, _, _)
Without(o, t, n) ==
    IF o = <<>> THEN <<>>
    ELSE (IF Head(t).kind = "file" /\ Head(t).name = n THEN <<>> ELSE <<Head(o)>>)
         \o Without(Tail(o), Tail(t), n)

\* The first render emitted a directory with the added name.
AddedNamesDirectory ==
    \E j \in 1..Len(first.tags) :
        first.tags[j].kind = "dir" /\ first.tags[j].name = first.added

====
